---- MODULE Spec2Model ----
(***************************************************************************)
(* Position lifecycle of the Bitcoin trading bot: the live Trader          *)
(* (bot/trader.py) with its storage and exchange collaborators, and the    *)
(* Backtester replay (bot/backtester.py).                                  *)
(*                                                                         *)
(* Units.  The code computes in floating point; the model is fixed point.  *)
(* Prices are in cents (1/100 USD) and every input price is a multiple of  *)
(* 100 cents, so price*(1-0.02) and price*(1+0.05) are exact.  Amounts are *)
(* in 1/1000 BTC (the live amount 0.001 is 1).  Money (capital, pnl,       *)
(* equity) is in price unit * amount unit = 1/100000 USD.                  *)
(***************************************************************************)
EXTENDS Integers, Sequences, FiniteSets, TLC

\* ---------------------------------------------------------------- bounds
MaxTicks == 4
MaxCandles == 3
MaxRerun == 2
MaxStatusTicks == 2
MaxSeries == 4
MaxTrades == 3

\* ------------------------------------------------------------- constants
STOP_LOSS_PCT == 2
TAKE_PROFIT_PCT == 5
EMA_TREND == 200
MACD_SLOW == 26
VOLUME_MULTIPLIER == 50
RSI_MIN == 40
RSI_MAX == 70
RSI_EXIT == 75
LIVE_AMOUNT == 1
LIVE_LIMIT == 300
INITIAL_CAPITAL == 1000000000
WARMUP_START == 200
WINDOW_BACK == 100

\* Python None where a dict / record is expected
None == [none |-> TRUE]
\* Python None as a signal value
NoSignal == "None"
\* Python None as a row id (sqlite AUTOINCREMENT ids start at 1)
NoId == 0
\* SQL NULL in a column; a set column holds <<value>>
NULL == <<>>

Signals == {"buy", "sell", NoSignal}
Prices == {9800, 10000, 10500}
\* lengths of the frame fetch_ohlcv can hand to run_analysis:
\* empty (failed fetch), shorter than the warmup, the requested limit
LiveLens == {0, 50, LIVE_LIMIT}

Max(a, b) == IF a >= b THEN a ELSE b

VARIABLES
    mode,            \* entry point run: "live" (main.py), "replay"
                     \* (python -m bot.backtester), "lockstep" (both, fed
                     \* the same inputs)
    last_call,       \* the operation performed last
    \* --- Trader (bot/trader.py) and its collaborators
    ticks,           \* Trader calls made so far
    df_len,          \* len(df) of the last fetch_ohlcv (trader.py:26)
    position,        \* Trader.position: None or the trade_data dict
    rows,            \* storage table trades; a row's id is its index
    held,            \* exchange account: filled buys minus filled sells
    latest_analysis, \* Trader.latest_analysis (trader.py:32)
    result,          \* value returned by the last Trader call
    exc,             \* exception the last Trader call raised, or "none"
    last_order,      \* create_order in the last Trader call: "none" (not
                     \* called), "filled" or "failed" (returned None)
    \* --- Backtester (bot/backtester.py)
    i,               \* loop index of run_backtest, also the row timestamp
    bt_position,     \* Backtester.position
    capital,         \* Backtester.capital
    trades,          \* Backtester.trades
    equity_curve,    \* Backtester.equity_curve
    bt_analysis,     \* analysis of the last replayed candle
    current_row,     \* the last replayed candle
    \* --- trading_loop (main.py)
    pc,              \* where the coroutine is: "run" (about to call
                     \* run_analysis), "notify" (awaiting send_signal),
                     \* "sleep" (awaiting asyncio.sleep), "stopped" (an
                     \* exception left the loop)
    notified,        \* outcome of this iteration's send_signal, or "none"
    \* --- Strategy.analyze called on a frame (verify.py test_strategy)
    frame,           \* the DataFrame passed: its length and the indicator
                     \* values of its last two rows
    st_analysis,     \* what the call returned, None before the first call
    \* --- a dataset replayed twice
    df,              \* the candles fetched by the first run, each with the
                     \* signal the evaluator gives on its window
    run,             \* "first", or how the second run was started:
                     \* "fresh" (a new Backtester) or "same" (run_backtest
                     \* called again on the same object)
    first_run,       \* trades and equity_curve the first run ended with
    \* --- status queries served between the steps of the trading loop
    view,            \* what the last status query read, None before it
    pending,         \* inside a tick: what run_analysis is about to assign
                     \* and return, None outside a tick
    \* --- Strategy.calculate_rsi called on a series
    rsi_in,          \* the series of closes and the period passed
    rsi_out,         \* the RSI series returned, None before the call
    \* --- Backtester.generate_report
    rp_trades,       \* self.trades when the report is generated
    report           \* the figures of the report, None before it

live_vars == <<ticks, df_len, position, rows, held, latest_analysis, result,
               exc, last_order>>
replay_vars == <<i, bt_position, capital, trades, equity_curve, bt_analysis,
                 current_row>>
loop_vars == <<pc, notified>>
strategy_vars == <<frame, st_analysis>>
rerun_vars == <<df, run, first_run>>
status_vars == <<view, pending>>
rsi_vars == <<rsi_in, rsi_out>>
report_vars == <<rp_trades, report>>
aux_vars == <<status_vars, rsi_vars, report_vars>>

\* ============================================================== Strategy
\* strategy.py:85  df.empty or len(df) < max(ema_trend, macd_slow)
\* only the MACD period is required
InsufficientDataMin(n) == n = 0 \/ n < MACD_SLOW

\* strategy.py:85  df.empty or len(df) < max(ema_trend, macd_slow)
InsufficientData(n) == n = 0 \/ n < Max(EMA_TREND, MACD_SLOW)

\* Strategy.analyze on a frame of n candles whose indicator comparisons
\* come out as signal sig at last close price: the early return carries
\* neither price nor indicator fields.
analyze(n, sig, price) ==
    IF InsufficientData(n)
    THEN [signal |-> NoSignal, reason |-> "Insufficient data"]
    ELSE [signal |-> sig, price |-> price, reason |-> "evaluated"]

\* dict.get(key): is the key present
Has(d, key) == key \in DOMAIN d

\* ---- the indicator values analyze reads off the last two rows
\* (strategy.py:99-116).  Prices in cents, RSI in points, MACD and volume
\* in units; a float that may be NaN is <<>> (NaN) or <<v>>.
NaN == <<>>

Abs(x) == IF x < 0 THEN -x ELSE x

\* ---- Strategy.calculate_rsi(series, period), strategy.py:51-59.
\* Positions are 1..Len(series) (position k is the code's index k - 1);
\* the RSI is in hundredths of a point.
\* delta = series.diff(): NaN at the first position
Delta(series, k) == IF k = 1 THEN NaN ELSE <<series[k] - series[k - 1]>>

\* delta.where(delta > 0, 0): the delta where the test holds, else 0; the
\* test is false on NaN
GainAt(series, k) ==
    LET d == Delta(series, k)
    IN  IF d # NaN /\ d[1] > 0 THEN d[1] ELSE 0

\* -delta.where(delta < 0, 0)
LossAt(series, k) ==
    LET d == Delta(series, k)
    IN  IF d # NaN /\ d[1] < 0 THEN -d[1] ELSE 0

RECURSIVE GainSum(_, _, _)
\* sum of the gains over the positions from..to
GainSum(series, from, to) ==
    IF from > to THEN 0
    ELSE GainAt(series, from) + GainSum(series, from + 1, to)

RECURSIVE LossSum(_, _, _)
\* sum of the losses over the positions from..to
LossSum(series, from, to) ==
    IF from > to THEN 0
    ELSE LossAt(series, from) + LossSum(series, from + 1, to)

\* .rolling(window=period).mean() has a value once the window holds
\* period observations
RollingDefined(k, period) == k >= period

\* rs = gain / loss; rsi = 100 - (100 / (1 + rs)) at position k, g and l
\* being the window sums (the means are g / period and l / period)
RsiAt(series, period, k) ==
    IF ~RollingDefined(k, period) THEN NaN
    ELSE LET g == GainSum(series, k - period + 1, k)
             l == LossSum(series, k - period + 1, k)
         IN  IF l = 0
             THEN IF g = 0 THEN NaN ELSE <<10000>>
             ELSE <<10000 - (10000 * l) \div (g + l)>>

calculate_rsi(series, period) ==
    [k \in 1..Len(series) |-> RsiAt(series, period, k)]

\* closes and periods calculate_rsi is tried on
RsiCloses == {9000, 10000, 11000}
RsiPeriods == {2, 3}

RECURSIVE SeqsUpTo(_, _)
\* the sequences over S of length at most n
SeqsUpTo(S, n) ==
    IF n = 0 THEN {<<>>}
    ELSE LET shorter == SeqsUpTo(S, n - 1)
         IN  shorter \cup {Append(q, x) : q \in shorter, x \in S}

Snapshots ==
    { [price |-> 10000, prev_price |-> pp,
       ema_trend |-> et, ema_fast |-> ef,
       ema_slow |-> es, prev_ema_slow |-> 10000,
       rsi |-> r,
       macd |-> m, macd_signal |-> 0,
       prev_macd |-> pm, prev_macd_signal |-> 0,
       volume |-> v, volume_avg |-> 100] :
      pp \in {9900, 10100}, et \in {9900, 10100}, ef \in {9950, 9960},
      es \in {9900, 10100},
      r \in {NaN, <<39>>, <<40>>, <<70>>, <<75>>, <<76>>},
      m \in {-1, 0, 1}, pm \in {-1, 0, 1}, v \in {50, 51} }

\* lengths of the frames analyze is called on
FrameLens == {0, 1, 50, 199, 200, LIVE_LIMIT}

\* strategy.py:119
Trend(s) == IF s.price > s.ema_trend THEN "uptrend" ELSE "downtrend"

\* strategy.py:122  (VOLUME_MULTIPLIER is in percent)
VolumeConfirmed(s) == s.volume * 100 > s.volume_avg * VOLUME_MULTIPLIER

\* strategy.py:125-126
MacdBullishCross(s) ==
    s.prev_macd < s.prev_macd_signal /\ s.macd > s.macd_signal
MacdBearishCross(s) ==
    s.prev_macd > s.prev_macd_signal /\ s.macd < s.macd_signal

\* strategy.py:129-130
PriceCrossAboveEma50(s) ==
    s.prev_price < s.prev_ema_slow /\ s.price > s.ema_slow
PriceBounceEma20(s) == Abs(s.price - s.ema_fast) * 1000 < 5 * s.price

\* strategy.py:178
PriceCrossBelowEma50(s) ==
    s.prev_price > s.prev_ema_slow /\ s.price < s.ema_slow

\* the lower RSI limit is exclusive
RsiHealthyAboveMin(rsi) == rsi # NaN /\ RSI_MIN < rsi[1] /\ rsi[1] <= RSI_MAX

\* strategy.py:139 and 168: comparisons with NaN are false
RsiHealthy(rsi) == rsi # NaN /\ RSI_MIN <= rsi[1] /\ rsi[1] <= RSI_MAX
RsiExtreme(rsi) == rsi # NaN /\ rsi[1] > RSI_EXIT

\* a downtrend leaves the reason list empty
BuyConditionsSilent(s) ==
    IF Trend(s) # "uptrend" THEN [signal |-> NoSignal, reason |-> <<>>]
    ELSE IF ~RsiHealthy(s.rsi)
    THEN [signal |-> NoSignal, reason |-> <<"Uptrend", "RSI out of range">>]
    ELSE IF ~MacdBullishCross(s)
    THEN [signal |-> NoSignal,
          reason |-> <<"Uptrend", "RSI healthy", "No MACD bullish cross">>]
    ELSE IF ~VolumeConfirmed(s)
    THEN [signal |-> NoSignal,
          reason |-> <<"Uptrend", "RSI healthy", "MACD bullish cross",
                       "Low volume">>]
    ELSE IF PriceCrossAboveEma50(s)
    THEN [signal |-> "buy",
          reason |-> <<"Uptrend", "RSI healthy", "MACD bullish cross",
                       "Volume confirmed", "Price crossed above EMA50">>]
    ELSE IF PriceBounceEma20(s)
    THEN [signal |-> "buy",
          reason |-> <<"Uptrend", "RSI healthy", "MACD bullish cross",
                       "Volume confirmed", "Price near EMA20">>]
    ELSE [signal |-> NoSignal,
          reason |-> <<"Uptrend", "RSI healthy", "MACD bullish cross",
                       "Volume confirmed", "No EMA entry signal">>]

\* strategy.py:132-164: signal and reason list after the buy block (the
\* entries of the list without their marks and numbers)
BuyConditions(s) ==
    IF Trend(s) # "uptrend"
    THEN [signal |-> NoSignal, reason |-> <<"Downtrend (price < EMA200)">>]
    ELSE IF ~RsiHealthy(s.rsi)
    THEN [signal |-> NoSignal, reason |-> <<"Uptrend", "RSI out of range">>]
    ELSE IF ~MacdBullishCross(s)
    THEN [signal |-> NoSignal,
          reason |-> <<"Uptrend", "RSI healthy", "No MACD bullish cross">>]
    ELSE IF ~VolumeConfirmed(s)
    THEN [signal |-> NoSignal,
          reason |-> <<"Uptrend", "RSI healthy", "MACD bullish cross",
                       "Low volume">>]
    ELSE IF PriceCrossAboveEma50(s)
    THEN [signal |-> "buy",
          reason |-> <<"Uptrend", "RSI healthy", "MACD bullish cross",
                       "Volume confirmed", "Price crossed above EMA50">>]
    ELSE IF PriceBounceEma20(s)
    THEN [signal |-> "buy",
          reason |-> <<"Uptrend", "RSI healthy", "MACD bullish cross",
                       "Volume confirmed", "Price near EMA20">>]
    ELSE [signal |-> NoSignal,
          reason |-> <<"Uptrend", "RSI healthy", "MACD bullish cross",
                       "Volume confirmed", "No EMA entry signal">>]

\* the MACD cross is looked at before the RSI
SellConditionsMacdFirst(s, b) ==
    IF MacdBearishCross(s)
    THEN [signal |-> "sell", reason |-> <<"MACD bearish crossover">>]
    ELSE IF RsiExtreme(s.rsi)
    THEN [signal |-> "sell", reason |-> <<"Extreme overbought">>]
    ELSE IF PriceCrossBelowEma50(s)
    THEN [signal |-> "sell", reason |-> <<"Price crossed below EMA50">>]
    ELSE b

\* strategy.py:166-180: the sell block, applied to the outcome b of the
\* buy block
SellConditions(s, b) ==
    IF RsiExtreme(s.rsi)
    THEN [signal |-> "sell", reason |-> <<"Extreme overbought">>]
    ELSE IF MacdBearishCross(s)
    THEN [signal |-> "sell", reason |-> <<"MACD bearish crossover">>]
    ELSE IF PriceCrossBelowEma50(s)
    THEN [signal |-> "sell", reason |-> <<"Price crossed below EMA50">>]
    ELSE b

\* strategy.py:193  ' | '.join(reason) if reason else 'Market Scanning...'
\* (a joined string is kept as the sequence of its parts)
JoinReason(reason) ==
    IF reason # <<>> THEN reason ELSE <<"Market Scanning...">>

\* strategy.py:89-194: what analyze does once the frame is long enough
Evaluate(s) ==
    LET d == SellConditions(s, BuyConditions(s))
    IN  [signal |-> d.signal,
         price |-> s.price,
         rsi |-> s.rsi,
         macd |-> s.macd,
         trend |-> Trend(s),
         volume_confirmed |-> VolumeConfirmed(s),
         volume_ratio |-> IF s.volume_avg > 0
                          THEN (s.volume * 100) \div s.volume_avg ELSE 0,
         ema_trend |-> s.ema_trend,
         ema_slow |-> s.ema_slow,
         ema_fast |-> s.ema_fast,
         reason |-> JoinReason(d.reason)]

\* Strategy.analyze(df) on a frame of n rows whose last two rows carry the
\* indicator values s
AnalyzeFrame(n, s) ==
    IF InsufficientData(n)
    THEN [signal |-> NoSignal, reason |-> <<"Insufficient data">>]
    ELSE Evaluate(s)

\* ========================================================= risk thresholds
\* the stop-loss percentage is added to the price
StopLossPriceAbove(price) == (price * (100 + STOP_LOSS_PCT)) \div 100

StopLossPrice(price) == (price * (100 - STOP_LOSS_PCT)) \div 100
TakeProfitPrice(price) == (price * (100 + TAKE_PROFIT_PCT)) \div 100

\* ============================================================== Exchange
\* ExchangeInterface.create_order: an order dict, or None when the real
\* exchange call raised (ok = FALSE)
create_order(side, amount, ok) ==
    IF ok THEN [side |-> side, filled |-> amount] ELSE None

\* =============================================================== Storage
save_trade(rws, trade_data, dbOk) ==
    IF dbOk
    THEN [rows |-> Append(rws, [type |-> trade_data.type,
                                entry_price |-> trade_data.entry_price,
                                amount |-> trade_data.amount,
                                stop_loss |-> trade_data.sl,
                                take_profit |-> trade_data.tp,
                                status |-> "open",
                                exit_price |-> NULL,
                                pnl |-> NULL]),
          id |-> Len(rws) + 1]
    ELSE [rows |-> rws, id |-> NoId]

close_trade(rws, trade_id, exit_price, dbOk) ==
    IF ~dbOk THEN rws
    ELSE IF trade_id \notin 1..Len(rws) THEN rws
    ELSE LET row == rws[trade_id]
             pnl == IF row.type = "buy"
                    THEN (exit_price - row.entry_price) * row.amount
                    ELSE (row.entry_price - exit_price) * row.amount
         IN [rws EXCEPT ![trade_id] =
                [row EXCEPT !.status = "closed",
                            !.exit_price = <<exit_price>>,
                            !.pnl = <<pnl>>]]

\* storage.py:55  SELECT ... WHERE symbol = ? AND status = 'open'
OpenRowIds(rws) == {k \in 1..Len(rws) : rws[k].status = "open"}

\* Storage.get_open_position: fetchone() takes the first row of the
\* SELECT, which scans the table in rowid order; the row's stop_loss and
\* take_profit columns come back under the keys 'sl' and 'tp'.
get_open_position(rws) ==
    IF OpenRowIds(rws) = {} THEN None
    ELSE LET k == CHOOSE j \in OpenRowIds(rws) :
                      \A m \in OpenRowIds(rws) : j <= m
         IN [id |-> k, type |-> rws[k].type,
             entry_price |-> rws[k].entry_price,
             amount |-> rws[k].amount,
             sl |-> rws[k].stop_loss, tp |-> rws[k].take_profit]

\* ================================================================ Trader
\* Each method is a function of the Trader's state and the outcomes of the
\* collaborator calls it makes (orderOk: create_order returned an order,
\* dbOk: the storage call did not raise).  It gives the new position and
\* rows, the value returned, and the order submitted ("none" if none).

\* open_position without the "if order:" test
open_position_unchecked(side, price, pos, rws, orderOk, dbOk) ==
    LET amount == LIVE_AMOUNT
        sl == StopLossPrice(price)
        tp == TakeProfitPrice(price)
        trade_data == [type |-> side, entry_price |-> price,
                       amount |-> amount, sl |-> sl, tp |-> tp]
        saved == save_trade(rws, trade_data, dbOk)
    IN [position |-> [type |-> side, entry_price |-> price,
                      amount |-> amount, sl |-> sl, tp |-> tp,
                      id |-> saved.id],
        rows |-> saved.rows,
        result |-> [action |-> "buy", price |-> price, sl |-> sl, tp |-> tp],
        order |-> IF orderOk THEN "filled" ELSE "failed"]

open_position(side, price, pos, rws, orderOk, dbOk) ==
    LET amount == LIVE_AMOUNT
        sl == StopLossPrice(price)
        tp == TakeProfitPrice(price)
        order == create_order(side, amount, orderOk)
    IN IF order # None
       THEN LET trade_data == [type |-> side, entry_price |-> price,
                               amount |-> amount, sl |-> sl, tp |-> tp]
                saved == save_trade(rws, trade_data, dbOk)
            IN [position |-> [type |-> side, entry_price |-> price,
                              amount |-> amount, sl |-> sl, tp |-> tp,
                              id |-> saved.id],
                rows |-> saved.rows,
                result |-> [action |-> "buy", price |-> price,
                            sl |-> sl, tp |-> tp],
                order |-> "filled"]
       ELSE [position |-> pos, rows |-> rws, result |-> None,
             order |-> "failed"]

\* close_position without the "if not self.position" early return
close_position_unguarded(price, reason, pos, rws, orderOk, dbOk) ==
    LET order == create_order("sell", LIVE_AMOUNT, orderOk)
    IN IF order # None
       THEN [position |-> None,
             rows |-> IF pos # None
                      THEN close_trade(rws, pos.id, price, dbOk)
                      ELSE rws,
             result |-> [action |-> "sell", price |-> price,
                         reason |-> reason],
             order |-> "filled"]
       ELSE [position |-> pos, rows |-> rws, result |-> None,
             order |-> "failed"]

close_position(price, reason, pos, rws, orderOk, dbOk) ==
    IF pos = None
    THEN [position |-> pos, rows |-> rws, result |-> None, order |-> "none"]
    ELSE LET amount == pos.amount
             order == create_order("sell", amount, orderOk)
         IN IF order # None
            THEN [position |-> None,
                  rows |-> IF Has(pos, "id")
                           THEN close_trade(rws, pos.id, price, dbOk)
                           ELSE rws,
                  result |-> [action |-> "sell", price |-> price,
                              reason |-> reason],
                  order |-> "filled"]
            ELSE [position |-> pos, rows |-> rws, result |-> None,
                  order |-> "failed"]

\* the buy branch without "and not self.position"
TakesBuyAlways(signal, pos) == signal = "buy"

\* trader.py:37 and :40, the two signal branches of run_analysis
TakesBuy(signal, pos) == signal = "buy" /\ pos = None
TakesSell(signal, pos) == signal = "sell" /\ pos # None

\* the stop-loss test with the comparison reversed
StopLossTriggeredAbove(price, pos) == price >= pos.sl

\* trader.py:48 and :51, the stop-loss / take-profit tests on the last price
StopLossTriggered(price, pos) == price <= pos.sl
TakeProfitTriggered(price, pos) == price >= pos.tp

\* Trader.run_analysis from "analysis = self.strategy.analyze(df)" on.
\* raised is the exception that escapes: with a position open and no
\* price in the analysis, "price <= sl" compares None with a float.
run_analysis_body(a, pos, rws, orderOk, dbOk) ==
    LET signal == a.signal
        idle == [position |-> pos, rows |-> rws, result |-> None,
                 order |-> "none", raised |-> "none"]
        Ret(r) == r @@ [raised |-> "none"]
    IN IF TakesBuy(signal, pos)
       THEN Ret(open_position("buy", a.price, pos, rws, orderOk, dbOk))
       ELSE IF TakesSell(signal, pos)
       THEN Ret(close_position(a.price, "Signal", pos, rws, orderOk, dbOk))
       ELSE IF pos # None
       THEN IF ~Has(a, "price")
            THEN [idle EXCEPT !.raised = "TypeError"]
            ELSE IF StopLossTriggered(a.price, pos)
            THEN Ret(close_position(a.price, "Stop Loss", pos, rws,
                                    orderOk, dbOk))
            ELSE IF TakeProfitTriggered(a.price, pos)
            THEN Ret(close_position(a.price, "Take Profit", pos, rws,
                                    orderOk, dbOk))
            ELSE idle
       ELSE idle

\* the exchange account's net holding after an order of the tick
HeldAfter(h, r) ==
    IF r.order # "filled" THEN h
    ELSE IF r.result.action = "buy" THEN h + 1 ELSE h - 1

\* a frame is never taken to be empty
EmptyNever(n) == FALSE

\* trader.py:27  df.empty
Empty(n) == n = 0

\* Trader.run_analysis() on a fetched frame of n rows.
LiveTick(n, sig, price, orderOk, dbOk) ==
    /\ ticks' = ticks + 1
    /\ df_len' = n
    /\ IF Empty(n)
       THEN /\ result' = None
            /\ exc' = "none"
            /\ last_order' = "none"
            /\ UNCHANGED <<position, rows, held, latest_analysis>>
       ELSE LET a == analyze(n, sig, price)
                r == run_analysis_body(a, position, rows, orderOk, dbOk)
            IN /\ latest_analysis' = a
               /\ position' = r.position
               /\ rows' = r.rows
               /\ result' = r.result
               /\ exc' = r.raised
               /\ last_order' = r.order
               /\ held' = HeldAfter(held, r)

\* One iteration of the trading loop's call trader.run_analysis().
RunAnalysis ==
    /\ UNCHANGED aux_vars
    /\ mode = "live"
    /\ ticks < MaxTicks
    /\ \E n \in LiveLens, sig \in Signals, price \in Prices,
          orderOk \in BOOLEAN, dbOk \in BOOLEAN :
          LiveTick(n, sig, price, orderOk, dbOk)
    /\ last_call' = "run_analysis"
    /\ UNCHANGED <<mode, replay_vars, loop_vars, strategy_vars, rerun_vars>>

\* Trader.close_position called directly, with its default reason.
ClosePosition ==
    /\ UNCHANGED aux_vars
    /\ mode = "live"
    /\ ticks < MaxTicks
    /\ \E price \in Prices, orderOk \in BOOLEAN, dbOk \in BOOLEAN :
          LET r == close_position(price, "Signal", position, rows,
                                  orderOk, dbOk)
          IN /\ position' = r.position
             /\ rows' = r.rows
             /\ result' = r.result
             /\ last_order' = r.order
             /\ held' = HeldAfter(held, r)
    /\ ticks' = ticks + 1
    /\ exc' = "none"
    /\ last_call' = "close_position"
    /\ UNCHANGED <<mode, df_len, latest_analysis, replay_vars, loop_vars, strategy_vars, rerun_vars>>

\* ============================================================ Backtester
\* One df row as run_backtest reads it (open and volume are not read by
\* the lifecycle); the timestamp is the row's index.
Candles(idx) ==
    {[timestamp |-> idx, high |-> h, low |-> l, close |-> c] :
        h \in Prices, l \in Prices, c \in Prices}
CandleRows(idx) == {r \in Candles(idx) : r.low <= r.close /\ r.close <= r.high}

\* len(df) of the frame fetch_historical_data returned
DfLen == WARMUP_START + MaxCandles

\* backtester.py:193  len(df.iloc[max(0, i-100):i+1])
WindowLen(idx) == (idx + 1) - Max(0, idx - WINDOW_BACK)

\* the whole capital is put into the position
AmountUsdAll(cap) == cap

\* backtester.py:77-78  95% of capital, converted at the entry price
AmountUsd(cap) == (cap \div 100) * 95
AmountBtc(cap, price) == AmountUsd(cap) \div price

\* the pnl of a short instead of a long
PnlUsdShort(exit_price, pos) ==
    (pos.entry_price - exit_price) * pos.amount_btc

\* pnl of closing pos at exit_price; pnl_pct in 1/100 of a percent
PnlUsd(exit_price, pos) == (exit_price - pos.entry_price) * pos.amount_btc
PnlPct(exit_price, pos) ==
    ((exit_price - pos.entry_price) * 10000) \div pos.entry_price

\* backtester.py:75 and :96, the two branches of simulate_trade
OpensLong(signal, pos) == signal = "buy" /\ pos = None
ClosesLong(signal, pos) == signal = "sell" /\ pos # None

\* backtester.py:132 and :155
StopLossHit(row, pos) == row.low <= pos.sl
TakeProfitHit(row, pos) == row.high >= pos.tp

\* backtester.py:133 and :156
StopLossExit(row, pos) == pos.sl
TakeProfitExit(row, pos) == pos.tp

\* b is the Backtester's ledger state [position, capital, trades]
simulate_trade(b, signal, price, timestamp, analysis) ==
    IF OpensLong(signal, b.position)
    THEN [b EXCEPT !.position =
            [type |-> "long", entry_price |-> price,
             entry_time |-> timestamp,
             amount_btc |-> AmountBtc(b.capital, price),
             amount_usd |-> AmountUsd(b.capital),
             sl |-> StopLossPrice(price), tp |-> TakeProfitPrice(price),
             reason |-> analysis.reason]]
    ELSE IF ClosesLong(signal, b.position)
    THEN LET pnl_usd == PnlUsd(price, b.position)
             trade == [entry_time |-> b.position.entry_time,
                       exit_time |-> timestamp,
                       entry_price |-> b.position.entry_price,
                       exit_price |-> price,
                       pnl_usd |-> pnl_usd,
                       pnl_pct |-> PnlPct(price, b.position),
                       exit_reason |-> "signal",
                       reason |-> analysis.reason]
         IN [position |-> None, capital |-> b.capital + pnl_usd,
             trades |-> Append(b.trades, trade)]
    ELSE b

\* the exit is not recorded in the trades list
SlTpCloseUnrecorded(b, row, exit_price, exit_reason) ==
    [position |-> None,
     capital |-> b.capital + PnlUsd(exit_price, b.position),
     trades |-> b.trades]

\* backtester.py:133-175: either close of check_stop_loss_take_profit
SlTpClose(b, row, exit_price, exit_reason) ==
    LET pnl_usd == PnlUsd(exit_price, b.position)
        trade == [entry_time |-> b.position.entry_time,
                  exit_time |-> row.timestamp,
                  entry_price |-> b.position.entry_price,
                  exit_price |-> exit_price,
                  pnl_usd |-> pnl_usd,
                  pnl_pct |-> PnlPct(exit_price, b.position),
                  exit_reason |-> exit_reason]
    IN [position |-> None, capital |-> b.capital + pnl_usd,
        trades |-> Append(b.trades, trade)]

\* the two tests of check_stop_loss_take_profit in the other order
check_take_profit_first(b, row) ==
    IF b.position = None THEN b
    ELSE IF TakeProfitHit(row, b.position)
    THEN SlTpClose(b, row, TakeProfitExit(row, b.position), "take_profit")
    ELSE IF StopLossHit(row, b.position)
    THEN SlTpClose(b, row, StopLossExit(row, b.position), "stop_loss")
    ELSE b

check_stop_loss_take_profit(b, row) ==
    IF b.position = None THEN b
    ELSE IF StopLossHit(row, b.position)
    THEN SlTpClose(b, row, StopLossExit(row, b.position), "stop_loss")
    ELSE IF TakeProfitHit(row, b.position)
    THEN SlTpClose(b, row, TakeProfitExit(row, b.position), "take_profit")
    ELSE b

\* the open position is left out of the equity
EquityRealized(b, price) == b.capital

\* backtester.py:211-213
Equity(b, price) ==
    IF b.position # None
    THEN b.capital + (price - b.position.entry_price) * b.position.amount_btc
    ELSE b.capital

Truthy(signal) == signal # NoSignal

Ledger == [position |-> bt_position, capital |-> capital, trades |-> trades]

\* the state of the ledger between the SL/TP check and the signal
AfterSlTp(row) == check_stop_loss_take_profit(Ledger, row)

\* Body of the run_backtest loop for row i, given the analysis of its
\* window: SL/TP check, signal, equity sample.
LoopBody(analysis, row) ==
    LET b1 == AfterSlTp(row)
        b2 == IF Truthy(analysis.signal)
              THEN simulate_trade(b1, analysis.signal, row.close,
                                  row.timestamp, analysis)
              ELSE b1
    IN /\ bt_position' = b2.position
       /\ capital' = b2.capital
       /\ trades' = b2.trades
       /\ equity_curve' = Append(equity_curve,
                                 [timestamp |-> row.timestamp,
                                  equity |-> Equity(b2, row.close)])
       /\ bt_analysis' = analysis
       /\ current_row' = row
       /\ i' = i + 1

\* One iteration of "for i in range(200, len(df))" as the code runs it:
\* the analysis is that of the 101-row window.
RunBacktestStep ==
    /\ UNCHANGED aux_vars
    /\ mode = "replay"
    /\ i < DfLen
    /\ \E row \in CandleRows(i), sig \in Signals :
          LoopBody(analyze(WindowLen(i), sig, row.close), row)
    /\ last_call' = "run_backtest"
    /\ UNCHANGED <<mode, live_vars, loop_vars, strategy_vars, rerun_vars>>

\* The same loop body under every result the evaluator can return for a
\* window with enough data.
ReplayCandle ==
    /\ UNCHANGED aux_vars
    /\ mode = "replay"
    /\ i < DfLen
    /\ \E row \in CandleRows(i), sig \in Signals :
          LoopBody(analyze(LIVE_LIMIT, sig, row.close), row)
    /\ last_call' = "replay_candle"
    /\ UNCHANGED <<mode, live_vars, loop_vars, strategy_vars, rerun_vars>>

\* The live tick and the replay loop body driven by the same (signal,
\* price): every order fills, every storage call succeeds, the frame has
\* enough data and the candle is flat at the price.
LockstepTick ==
    /\ UNCHANGED aux_vars
    /\ mode = "lockstep"
    /\ ticks < MaxTicks
    /\ i < DfLen
    /\ \E sig \in Signals, price \in Prices :
          /\ LiveTick(LIVE_LIMIT, sig, price, TRUE, TRUE)
          /\ LoopBody(analyze(LIVE_LIMIT, sig, price),
                      [timestamp |-> i, high |-> price, low |-> price,
                       close |-> price])
    /\ last_call' = "lockstep"
    /\ UNCHANGED <<mode, loop_vars, strategy_vars, rerun_vars>>

\* The process is stopped between two ticks and started again: the new
\* Trader (trader.py:10-23) takes its position from storage and has no
\* latest_analysis yet; trade rows and the exchange account are kept.
Restart ==
    /\ UNCHANGED aux_vars
    /\ mode = "live"
    /\ position' = get_open_position(rows)
    /\ latest_analysis' = None
    /\ result' = None
    /\ exc' = "none"
    /\ last_order' = "none"
    /\ last_call' = "restart"
    /\ UNCHANGED <<mode, ticks, df_len, rows, held, replay_vars, loop_vars,
                   strategy_vars, rerun_vars>>

\* ========================================================== trading_loop
\* Outcomes of notifier.send_signal: the message was sent, the Telegram
\* call raised inside send_message (caught and logged there), or token /
\* chat id are not configured (send_message returns at once).
NotifyOutcomes == {"sent", "failed", "skipped"}

\* an exception of run_analysis is not caught and leaves the loop
AfterRunUncaught(raised, res) ==
    IF raised # "none" THEN "stopped"
    ELSE IF res # None THEN "notify"
    ELSE "sleep"

\* main.py:23-30: where the iteration goes after run_analysis raised or
\* returned res ("except Exception" logs and falls through to the sleep)
AfterRun(raised, res) ==
    IF raised # "none" THEN "sleep"
    ELSE IF res # None THEN "notify"
    ELSE "sleep"

\* main.py:23  result = trader.run_analysis()
LoopRun ==
    /\ UNCHANGED aux_vars
    /\ mode = "live"
    /\ pc = "run"
    /\ ticks < MaxTicks
    /\ \E n \in LiveLens, sig \in Signals, price \in Prices,
          orderOk \in BOOLEAN, dbOk \in BOOLEAN :
          LiveTick(n, sig, price, orderOk, dbOk)
    /\ pc' = AfterRun(exc', result')
    /\ notified' = "none"
    /\ last_call' = "run_analysis"
    /\ UNCHANGED <<mode, replay_vars, strategy_vars, rerun_vars>>

\* a buy whose notification failed is taken back
LoopNotifyRollsBack ==
    /\ UNCHANGED aux_vars
    /\ mode = "live"
    /\ pc = "notify"
    /\ \E out \in NotifyOutcomes :
          /\ notified' = out
          /\ position' = IF out = "failed" /\ result.action = "buy"
                         THEN None ELSE position
    /\ pc' = "sleep"
    /\ last_call' = "send_signal"
    /\ UNCHANGED <<mode, ticks, df_len, rows, held, latest_analysis, result,
                   exc, last_order, replay_vars, strategy_vars, rerun_vars>>

\* main.py:27  await notifier.send_signal(result)
LoopNotify ==
    /\ UNCHANGED aux_vars
    /\ mode = "live"
    /\ pc = "notify"
    /\ \E out \in NotifyOutcomes : notified' = out
    /\ pc' = "sleep"
    /\ last_call' = "send_signal"
    /\ UNCHANGED <<mode, live_vars, replay_vars, strategy_vars, rerun_vars>>

\* main.py:33  await asyncio.sleep(60)
LoopSleep ==
    /\ UNCHANGED aux_vars
    /\ mode = "live"
    /\ pc = "sleep"
    /\ pc' = "run"
    /\ last_call' = "sleep"
    /\ UNCHANGED <<mode, notified, live_vars, replay_vars, strategy_vars, rerun_vars>>

\* ============================================== Strategy called directly
\* verify.py:32-40: test_strategy calls strategy.analyze(df) once, on
\* the frame it is given
Analyze ==
    /\ UNCHANGED aux_vars
    /\ mode = "verify"
    /\ st_analysis = None
    /\ \E n \in FrameLens, s \in Snapshots :
          /\ frame' = [len |-> n, ind |-> s]
          /\ st_analysis' = AnalyzeFrame(n, s)
    /\ last_call' = "analyze"
    /\ UNCHANGED <<mode, live_vars, replay_vars, loop_vars, rerun_vars>>

\* ================================================== a dataset replayed twice
RerunLen == WARMUP_START + MaxRerun

\* the trades list is shared between Backtester objects
NewBacktesterSharedTrades ==
    [position |-> None, capital |-> INITIAL_CAPITAL, trades |-> trades,
     equity_curve |-> <<>>]

\* backtester.py:36-41: the results tracking of a new Backtester
NewBacktester ==
    [position |-> None, capital |-> INITIAL_CAPITAL, trades |-> <<>>,
     equity_curve |-> <<>>]

\* One candle of the first run: the loop body on a fetched candle, the
\* candle and the evaluator's signal on its window being kept in df.
FirstRunCandle ==
    /\ UNCHANGED aux_vars
    /\ mode = "rerun"
    /\ run = "first"
    /\ i < RerunLen
    /\ \E row \in CandleRows(i), sig \in Signals :
          /\ LoopBody(analyze(LIVE_LIMIT, sig, row.close), row)
          /\ df' = Append(df, [row |-> row, sig |-> sig])
    /\ last_call' = "run_backtest"
    /\ UNCHANGED <<mode, run, first_run, live_vars, loop_vars, strategy_vars>>

\* After the first run: Backtester() and run_backtest() on the new object.
RunFresh ==
    /\ UNCHANGED aux_vars
    /\ mode = "rerun"
    /\ run = "first"
    /\ i = RerunLen
    /\ first_run' = [trades |-> trades, equity_curve |-> equity_curve]
    /\ run' = "fresh"
    /\ bt_position' = NewBacktester.position
    /\ capital' = NewBacktester.capital
    /\ trades' = NewBacktester.trades
    /\ equity_curve' = NewBacktester.equity_curve
    /\ i' = WARMUP_START
    /\ last_call' = "Backtester"
    /\ UNCHANGED <<mode, df, bt_analysis, current_row, live_vars, loop_vars,
                   strategy_vars>>

\* After the first run: run_backtest() again on the same object, which
\* starts its loop over (backtester.py:177-191) with the fields as the
\* first run left them.
RunAgain ==
    /\ UNCHANGED aux_vars
    /\ mode = "rerun"
    /\ run = "first"
    /\ i = RerunLen
    /\ first_run' = [trades |-> trades, equity_curve |-> equity_curve]
    /\ run' = "same"
    /\ i' = WARMUP_START
    /\ last_call' = "run_backtest"
    /\ UNCHANGED <<mode, df, bt_position, capital, trades, equity_curve,
                   bt_analysis, current_row, live_vars, loop_vars,
                   strategy_vars>>

\* One candle of the second run: the loop body on the same candle, with
\* the signal the evaluator gave on the same window.
SecondRunCandle ==
    /\ UNCHANGED aux_vars
    /\ mode = "rerun"
    /\ run # "first"
    /\ i < RerunLen
    /\ LET c == df[i - WARMUP_START + 1]
       IN  LoopBody(analyze(LIVE_LIMIT, c.sig, c.row.close), c.row)
    /\ last_call' = "run_backtest"
    /\ UNCHANGED <<mode, rerun_vars, live_vars, loop_vars, strategy_vars>>

\* ============================================= calculate_rsi on a series
CalculateRsi ==
    /\ mode = "rsi"
    /\ rsi_in = None
    /\ \E series \in SeqsUpTo(RsiCloses, MaxSeries), period \in RsiPeriods :
          /\ rsi_in' = [series |-> series, period |-> period]
          /\ rsi_out' = calculate_rsi(series, period)
    /\ last_call' = "calculate_rsi"
    /\ UNCHANGED <<mode, live_vars, replay_vars, loop_vars, strategy_vars,
                   rerun_vars, status_vars, report_vars>>

\* ===================================== status queries beside the loop
\* main.py:64-68 runs server.serve() and trading_loop() on one event loop
\* (the Telegram application polls on it too), so a handler runs only
\* while the loop's coroutine is suspended at one of its awaits.  To let
\* a query fall inside a tick, run_analysis is split where it has written
\* storage and assigned self.position but has not finished:
\*   open   trader.py:82  self.position = trade_data   (line 83 adds id)
\*   close  trader.py:96  storage.close_trade(...)      (line 100 clears)

\* the dict assigned at trader.py:82, before line 83 gives it its id
WithoutId(pos) == [f \in DOMAIN pos \ {"id"} |-> pos[f]]

\* self.position part-way through the call whose outcome is r
MidTickPosition(pos, r) ==
    IF r.result # None /\ r.result.action = "buy"
    THEN WithoutId(r.position)
    ELSE pos

\* trader.run_analysis() up to the point above
TickBegin ==
    /\ mode = "live"
    /\ pc = "run"
    /\ ticks < MaxStatusTicks
    /\ \E n \in LiveLens, sig \in Signals, price \in Prices,
          orderOk \in BOOLEAN, dbOk \in BOOLEAN :
          /\ ticks' = ticks + 1
          /\ df_len' = n
          /\ IF Empty(n)
             THEN /\ pending' = [position |-> position, result |-> None,
                                 raised |-> "none"]
                  /\ last_order' = "none"
                  /\ UNCHANGED <<position, rows, held, latest_analysis>>
             ELSE LET a == analyze(n, sig, price)
                      r == run_analysis_body(a, position, rows, orderOk,
                                             dbOk)
                  IN /\ latest_analysis' = a
                     /\ rows' = r.rows
                     /\ last_order' = r.order
                     /\ held' = HeldAfter(held, r)
                     /\ position' = MidTickPosition(position, r)
                     /\ pending' = [position |-> r.position,
                                    result |-> r.result,
                                    raised |-> r.raised]
    /\ pc' = "in_tick"
    /\ last_call' = "run_analysis"
    /\ UNCHANGED <<result, exc, notified, view, mode, replay_vars,
                   strategy_vars, rerun_vars, rsi_vars, report_vars>>

\* the rest of trader.run_analysis(), and main.py:23-30 on its outcome
TickEnd ==
    /\ mode = "live"
    /\ pc = "in_tick"
    /\ position' = pending.position
    /\ result' = pending.result
    /\ exc' = pending.raised
    /\ pc' = AfterRun(pending.raised, pending.result)
    /\ notified' = "none"
    /\ pending' = None
    /\ last_call' = "run_analysis"
    /\ UNCHANGED <<ticks, df_len, rows, held, latest_analysis, last_order,
                   view, mode, replay_vars, strategy_vars, rerun_vars,
                   rsi_vars, report_vars>>

\* a handler may run wherever the loop is
YieldedAnywhere(p) == TRUE

\* the loop's coroutine is suspended: main.py:27 await send_signal(...)
\* or main.py:33 await asyncio.sleep(60)
Yielded(p) == p \in {"notify", "sleep"}

\* latest.get(key, default) at server.py:47, :65-66
LatestGet(latest, key, default) ==
    IF latest # None /\ Has(latest, key) THEN latest[key] ELSE default

\* GET /api/status (server.py:32-73).  bot_trader is set before the
\* server starts (main.py:41).  With no ticker, line 42 calls .get on
\* None.
GetStatus ==
    /\ mode = "live"
    /\ Yielded(pc)
    /\ \E tickerOk \in BOOLEAN, last \in Prices :
          view' = IF ~tickerOk
                  THEN [handler |-> "get_status",
                        raised |-> "AttributeError"]
                  ELSE [handler |-> "get_status", raised |-> "none",
                        price |-> last,
                        last_signal |->
                            LatestGet(latest_analysis, "signal", NoSignal),
                        signal_reason |->
                            LatestGet(latest_analysis, "reason",
                                      "Esperando datos...")]
    /\ last_call' = "get_status"
    /\ UNCHANGED <<pending, mode, live_vars, replay_vars, loop_vars,
                   strategy_vars, rerun_vars, rsi_vars, report_vars>>

\* Telegram /status (commands.py:9-34).  With no ticker, line 13
\* subscripts None.
StatusCommand ==
    /\ mode = "live"
    /\ Yielded(pc)
    /\ \E tickerOk \in BOOLEAN, last \in Prices :
          view' = IF ~tickerOk
                  THEN [handler |-> "status", raised |-> "TypeError"]
                  ELSE [handler |-> "status", raised |-> "none",
                        price |-> last, position |-> position]
    /\ last_call' = "status"
    /\ UNCHANGED <<pending, mode, live_vars, replay_vars, loop_vars,
                   strategy_vars, rerun_vars, rsi_vars, report_vars>>

\* ================================= Backtester.generate_report on a ledger
\* backtester.py:223-262.  Money is in 1e-5 USD; a quotient the code
\* computes in floating point is kept as the pair it divides.
Inf == [inf |-> TRUE]

Ratio(n, d) == [num |-> n, den |-> d]

RECURSIVE SumOfPnl(_)
\* sum(t['pnl_usd'] for t in ts)
SumOfPnl(ts) ==
    IF ts = <<>> THEN 0 ELSE ts[1].pnl_usd + SumOfPnl(Tail(ts))

IsWinning(t) == t.pnl_usd > 0
IsLosing(t) == t.pnl_usd <= 0

winning_trades(ts) == SelectSeq(ts, IsWinning)
losing_trades(ts) == SelectSeq(ts, IsLosing)

\* the quotient of the sums, sign kept
profit_factor_signed(ts) ==
    LET wins == SumOfPnl(winning_trades(ts))
        losses == SumOfPnl(losing_trades(ts))
    IN  IF losing_trades(ts) # <<>> /\ losses # 0
        THEN Ratio(wins, losses)
        ELSE Inf

\* line 244: abs(sum(wins) / sum(losses)), inf without a losing sum
profit_factor(ts) ==
    LET wins == SumOfPnl(winning_trades(ts))
        losses == SumOfPnl(losing_trades(ts))
    IN  IF losing_trades(ts) # <<>> /\ losses # 0
        THEN Ratio(Abs(wins), Abs(losses))
        ELSE Inf

\* what the report logs, None when it returns at line 231
generate_report(ts, cap) ==
    IF ts = <<>> THEN None
    ELSE [total_trades |-> Len(ts),
          winning |-> Len(winning_trades(ts)),
          losing |-> Len(losing_trades(ts)),
          win_rate |-> Ratio(100 * Len(winning_trades(ts)), Len(ts)),
          total_pnl |-> SumOfPnl(ts),
          avg_win |-> IF winning_trades(ts) # <<>>
                      THEN Ratio(SumOfPnl(winning_trades(ts)),
                                 Len(winning_trades(ts)))
                      ELSE Ratio(0, 1),
          avg_loss |-> IF losing_trades(ts) # <<>>
                       THEN Ratio(SumOfPnl(losing_trades(ts)),
                                  Len(losing_trades(ts)))
                       ELSE Ratio(0, 1),
          profit_factor |-> profit_factor(ts),
          final_capital |-> cap,
          total_return |-> Ratio(cap - INITIAL_CAPITAL, INITIAL_CAPITAL)]

\* pnl_usd of the ledgers the report is tried on: -50, -20, 0, +100, +250
ReportPnls == {-5000000, -2000000, 0, 10000000, 25000000}

ReportTrades == {[pnl_usd |-> v] : v \in ReportPnls}

GenerateReport ==
    /\ mode = "report"
    /\ last_call = "init"
    /\ \E ts \in SeqsUpTo(ReportTrades, MaxTrades) :
          /\ rp_trades' = ts
          /\ report' = generate_report(ts, capital)
    /\ last_call' = "generate_report"
    /\ UNCHANGED <<mode, live_vars, replay_vars, loop_vars, strategy_vars,
                   rerun_vars, status_vars, rsi_vars>>

vars == <<mode, last_call, live_vars, replay_vars, loop_vars, strategy_vars,
          rerun_vars, aux_vars>>

Fresh ==
    /\ last_call = "init"
    /\ i = WARMUP_START
    /\ bt_position = None
    /\ capital = INITIAL_CAPITAL
    /\ trades = <<>>
    /\ equity_curve = <<>>
    /\ bt_analysis = None
    /\ current_row = None
    /\ ticks = 0
    /\ df_len = 0
    /\ position = None
    /\ rows = <<>>
    /\ held = 0
    /\ latest_analysis = None
    /\ result = None
    /\ exc = "none"
    /\ last_order = "none"
    /\ pc = "run"
    /\ notified = "none"
    /\ frame = None
    /\ st_analysis = None
    /\ df = <<>>
    /\ run = "first"
    /\ first_run = None
    /\ view = None
    /\ pending = None
    /\ rsi_in = None
    /\ rsi_out = None
    /\ rp_trades = <<>>
    /\ report = None

\* main.py runs the Trader, "python -m bot.backtester" the Backtester
Init == mode \in {"live", "replay"} /\ Fresh

Next == RunAnalysis \/ RunBacktestStep

Spec == Init /\ [][Next]_vars

\* The lifecycle operations under every evaluator result: the live tick,
\* a direct close, and the replay loop body.
NextLifecycle == RunAnalysis \/ ClosePosition \/ ReplayCandle

SpecLifecycle == Init /\ [][NextLifecycle]_vars
InitLockstep == mode = "lockstep" /\ Fresh

\* The trading loop of main.py.  The event loop resumes the coroutine when
\* its sleep or its send completes, hence the weak fairness of each step.
InitLoop == mode = "live" /\ Fresh

\* The live Trader across restarts of the process.
NextRestart == RunAnalysis \/ Restart

SpecRestart == InitLoop /\ [][NextRestart]_vars

\* Strategy.calculate_rsi on every short series, with short periods.
InitRsi == mode = "rsi" /\ Fresh

SpecRsi == InitRsi /\ [][CalculateRsi]_vars

\* The trading loop with status queries arriving beside it.
NextStatus ==
    \/ TickBegin
    \/ TickEnd
    \/ LoopNotify
    \/ LoopSleep
    \/ GetStatus
    \/ StatusCommand

SpecStatus == InitLoop /\ [][NextStatus]_vars

\* Backtester.generate_report on every short ledger.
InitReport == mode = "report" /\ Fresh

SpecReport == InitReport /\ [][GenerateReport]_vars

\* Strategy.analyze on its own, on frames of every length and indicator
\* values either side of every threshold.
InitStrategy == mode = "verify" /\ Fresh

SpecStrategy == InitStrategy /\ [][Analyze]_vars

\* A dataset replayed by one Backtester and then once more, by a new
\* Backtester or by the same one.
InitRerun == mode = "rerun" /\ Fresh

NextRerun == FirstRunCandle \/ RunFresh \/ RunAgain \/ SecondRunCandle

SpecRerun == InitRerun /\ [][NextRerun]_vars

NextLoop == LoopRun \/ LoopNotify \/ LoopSleep

SpecLoop ==
    /\ InitLoop
    /\ [][NextLoop]_vars
    /\ WF_vars(LoopRun)
    /\ WF_vars(LoopNotify)
    /\ WF_vars(LoopSleep)

SpecLockstep == InitLockstep /\ [][LockstepTick]_vars

\* ================================================================ claims
Last(seq) == seq[Len(seq)]

RECURSIVE SumPnl(_)
SumPnl(seq) == IF seq = <<>> THEN 0
               ELSE seq[1].pnl_usd + SumPnl(Tail(seq))

\* a Trader call (run_analysis or close_position) / a replayed candle
LiveCall == ticks' = ticks + 1
CandleStep == i' = i + 1

\* the candle just replayed closed a position
ClosedOnCandle ==
    /\ trades # <<>>
    /\ current_row # None
    /\ Last(trades).exit_time = current_row.timestamp

\* C1: at most one position is open at any time.  Live: the exchange
\* account never holds more than the one amount bought, and holds it
\* exactly while the Trader is Open; a call never turns an open position
\* into a different open position.  Replay: a buy applied while the ledger
\* is Open (after the candle's SL/TP check) changes nothing, and the
\* position can only be succeeded by another one on a candle that recorded
\* the Trade closing it.
SinglePosition ==
    /\ [](held \in {0, 1} /\ (held = 1 <=> position # None))
    /\ [][/\ (LiveCall /\ position # None /\ position' # None)
               => position' = position
          /\ (CandleStep /\ bt_analysis'.signal = "buy"
                /\ AfterSlTp(current_row').position # None)
               => UNCHANGED <<bt_position, capital, trades>>
          /\ (CandleStep /\ bt_position # None /\ bt_position' # None
                /\ bt_position' # bt_position)
               => /\ Len(trades') = Len(trades) + 1
                  /\ Last(trades').entry_time = bt_position.entry_time
                  /\ bt_position'.entry_time = current_row'.timestamp]_vars

\* a live tick saw buy while Open and left the position alone
BuyWhileOpenIgnored ==
    /\ mode = "live"
    /\ last_call = "run_analysis"
    /\ df_len = LIVE_LIMIT
    /\ latest_analysis.signal = "buy"
    /\ position # None
    /\ result = None
    /\ last_order = "none"

\* C2: on a tick where the position is Open, the stop-loss condition holds
\* and the evaluator returns sell, the position is closed with exit reason
\* stop_loss, in live mode and in replay.
StopLossBeforeSignal ==
    [][/\ (LiveCall /\ last_call' = "run_analysis" /\ df_len' # 0
             /\ position # None
             /\ Has(latest_analysis', "price")
             /\ latest_analysis'.signal = "sell"
             /\ StopLossTriggered(latest_analysis'.price, position)
             /\ position' = None)
            => result'.reason = "Stop Loss"
       /\ (CandleStep /\ bt_position # None
             /\ bt_analysis'.signal = "sell"
             /\ StopLossHit(current_row', bt_position))
            => Last(trades').exit_reason = "stop_loss"]_vars

\* C3: the window analysed for a replayed candle has at least the warmup
\* threshold of rows, so its analysis is never "Insufficient data".
ReplayWindowWarm ==
    last_call = "run_backtest"
        => /\ ~InsufficientData(WindowLen(current_row.timestamp))
           /\ bt_analysis.reason # "Insufficient data"

\* C4: a call whose order failed leaves position and storage as they were,
\* and position or storage change only in a call whose order was filled.
OrderFailureAborts ==
    [][LiveCall =>
         /\ (last_order' = "failed"
               => position' = position /\ rows' = rows)
         /\ (position' # position => last_order' = "filled")
         /\ (rows' # rows => last_order' = "filled")]_vars

\* a close was attempted on an open, persisted position and aborted
CloseAborted ==
    /\ last_order = "failed"
    /\ position # None
    /\ position.id # NoId
    /\ rows[position.id].status = "open"

\* C5: a call aborted by a failed order hands back something other than
\* what a call that attempted nothing hands back (None, no exception).
FailureSurfaced ==
    last_order = "failed" => (result # None \/ exc # "none")

LiveReason(r) == IF r = "Signal" THEN "signal"
                 ELSE IF r = "Stop Loss" THEN "stop_loss"
                 ELSE "take_profit"
LiveClosed == result # None /\ result.action = "sell"
LockstepAgree ==
    mode = "lockstep" =>
        /\ (position = None) <=> (bt_position = None)
        /\ LiveClosed <=> ClosedOnCandle
        /\ LiveClosed /\ ClosedOnCandle
             => /\ LiveReason(result.reason) = Last(trades).exit_reason
                /\ result.price = Last(trades).exit_price

\* C8: closing while Flat is a no-op.  close_position with no position
\* returns None, submits no order and leaves storage alone; a replayed
\* candle that finds the ledger Flat and carries no buy appends no Trade
\* and leaves capital and position unchanged.
CloseWhileFlatNoOp ==
    [][/\ (LiveCall /\ last_call' = "close_position" /\ position = None)
            => /\ result' = None
               /\ last_order' = "none"
               /\ UNCHANGED <<position, rows, held>>
       /\ (LiveCall /\ last_call' = "run_analysis" /\ position = None
             /\ df_len' # 0 /\ latest_analysis'.signal # "buy")
            => /\ result' = None
               /\ last_order' = "none"
               /\ UNCHANGED <<position, rows, held>>
       /\ (CandleStep /\ bt_position = None
             /\ bt_analysis'.signal # "buy")
            => UNCHANGED <<bt_position, capital, trades>>]_vars

\* close_position was called on a Flat Trader
ClosedWhileFlat ==
    /\ last_call = "close_position"
    /\ position = None
    /\ result = None
    /\ last_order = "none"

\* C9: every close in replay records pnl_usd = (exit - entry) * amount of
\* the position closed and adds exactly that to capital; capital changes
\* on no other step, so capital = initial capital + sum of the pnl_usd.
CapitalIsRealizedPnl ==
    /\ [](capital = INITIAL_CAPITAL + SumPnl(trades))
    /\ [][CandleStep =>
            /\ Len(trades') = Len(trades) => capital' = capital
            /\ Len(trades') # Len(trades) =>
                 LET t == Last(trades')
                 IN /\ Len(trades') = Len(trades) + 1
                    /\ bt_position # None
                    /\ t.entry_price = bt_position.entry_price
                    /\ t.pnl_usd = (t.exit_price - bt_position.entry_price)
                                   * bt_position.amount_btc
                    /\ capital' = capital + t.pnl_usd]_vars

\* two closes, one by stop-loss and one by signal, have moved capital
TwoClosesMovedCapital ==
    /\ Len(trades) = 2
    /\ trades[1].exit_reason = "stop_loss"
    /\ trades[2].exit_reason = "signal"
    /\ trades[2].pnl_usd # 0
    /\ capital # INITIAL_CAPITAL

\* C10: a candle whose low is at or below sl and whose high is at or above
\* tp closes the position by stop-loss at sl and records one Trade.
StopLossWinsCandle ==
    [][(CandleStep /\ bt_position # None
          /\ current_row'.low <= bt_position.sl
          /\ current_row'.high >= bt_position.tp)
         => /\ Len(trades') = Len(trades) + 1
            /\ Last(trades').exit_reason = "stop_loss"
            /\ Last(trades').exit_price = bt_position.sl
            /\ Last(trades').exit_time = current_row'.timestamp]_vars

\* a candle spanning both thresholds was closed by stop-loss
BothThresholdsHit ==
    /\ ClosedOnCandle
    /\ current_row.low <= StopLossPrice(Last(trades).entry_price)
    /\ current_row.high >= TakeProfitPrice(Last(trades).entry_price)
    /\ Last(trades).exit_reason = "stop_loss"

\* An evaluation: analyze was called on a frame long enough.
Evaluated == st_analysis # None /\ ~(frame.len = 0 \/ frame.len < 200)

\* C11: when the fetched frame is empty run_analysis returns None, submits
\* no order, writes nothing to storage and leaves position and
\* latest_analysis as they were; it is run once, the loop goes to its
\* sleep without notifying, and run_analysis is next called from the top
\* of the loop.
EmptyFetchSkipsTick ==
    [][/\ (LiveCall /\ last_call' = "run_analysis" /\ df_len' = 0)
            => /\ result' = None
               /\ exc' = "none"
               /\ last_order' = "none"
               /\ UNCHANGED <<position, rows, held, latest_analysis>>
               /\ pc = "run" /\ pc' = "sleep"
       /\ LiveCall => (pc = "run" /\ pc' # "run")]_vars

\* an empty fetch skipped a tick while a position was open
SkippedWhileOpen ==
    /\ last_call = "run_analysis"
    /\ df_len = 0
    /\ position # None
    /\ result = None
    /\ pc = "sleep"

\* C12: on every frame shorter than max(EMA_TREND, MACD_SLOW) = 200 rows,
\* the empty one included, analyze returns signal None with reason
\* 'Insufficient data' and no other field (no price, rsi, macd, trend or
\* volume field).
ShortFrameInsufficient ==
    (st_analysis # None /\ (frame.len = 0 \/ frame.len < 200))
        => /\ DOMAIN st_analysis = {"signal", "reason"}
           /\ st_analysis.signal = NoSignal
           /\ st_analysis.reason = <<"Insufficient data">>

\* analyze was called on a frame one row short of the threshold
AnalyzedShortFrame ==
    /\ st_analysis # None
    /\ frame.len = 199
    /\ st_analysis.signal = NoSignal

\* The comparisons of the claims, written on the values of the frame.
BuySubConditions ==
    LET s == frame.ind
    IN  /\ s.price > s.ema_trend
        /\ s.rsi # NaN /\ 40 <= s.rsi[1] /\ s.rsi[1] <= 70
        /\ s.prev_macd < s.prev_macd_signal /\ s.macd > s.macd_signal
        /\ 2 * s.volume > s.volume_avg
        /\ \/ s.prev_price < s.prev_ema_slow /\ s.price > s.ema_slow
           \/ 200 * (s.price - s.ema_fast) < s.price
              /\ 200 * (s.ema_fast - s.price) < s.price

OverrideRsi == frame.ind.rsi # NaN /\ frame.ind.rsi[1] > 75

OverrideMacd ==
    /\ frame.ind.prev_macd > frame.ind.prev_macd_signal
    /\ frame.ind.macd < frame.ind.macd_signal

OverrideEma ==
    /\ frame.ind.prev_price > frame.ind.prev_ema_slow
    /\ frame.ind.price < frame.ind.ema_slow

\* C13: with sufficient data analyze returns buy exactly when every buy
\* sub-condition holds (close above the trend EMA, RSI within 40..70,
\* MACD bullish cross, volume above volume_avg times the configured
\* multiplier 0.5, and a cross above the slow EMA or a price within 0.5%
\* of the fast EMA) and none of the three sell overrides holds; analyze is
\* given the frame only, never the position.
BuyIffAllConditions ==
    Evaluated =>
        (st_analysis.signal = "buy"
            <=> (BuySubConditions
                 /\ ~OverrideRsi /\ ~OverrideMacd /\ ~OverrideEma))

\* a buy at the lower RSI limit, entered on the price being near EMA20
BuyAtRsiMin ==
    /\ Evaluated
    /\ st_analysis.signal = "buy"
    /\ frame.ind.rsi = <<40>>
    /\ ~(frame.ind.price > frame.ind.ema_slow)

\* C14: the sell overrides are looked at after the buy block, in the
\* order RSI above 75, MACD bearish cross, price crossing below the slow
\* EMA; when one holds the signal is sell, buy conditions or not, and the
\* reason is the reason of the first that holds, alone.
SellOverridesBuy ==
    Evaluated =>
        /\ OverrideRsi
            => /\ st_analysis.signal = "sell"
               /\ st_analysis.reason = <<"Extreme overbought">>
        /\ (~OverrideRsi /\ OverrideMacd)
            => /\ st_analysis.signal = "sell"
               /\ st_analysis.reason = <<"MACD bearish crossover">>
        /\ (~OverrideRsi /\ ~OverrideMacd /\ OverrideEma)
            => /\ st_analysis.signal = "sell"
               /\ st_analysis.reason = <<"Price crossed below EMA50">>

\* every buy sub-condition held and the price crossed below EMA50: sell
SellDespiteBuyConditions ==
    /\ Evaluated
    /\ BuySubConditions
    /\ OverrideEma
    /\ st_analysis.signal = "sell"

\* C15 as stated: an evaluation that gives neither buy nor sell has
\* signal None and the reason 'Market Scanning...'.
ScanningReason ==
    (Evaluated /\ st_analysis.signal \notin {"buy", "sell"})
        => /\ st_analysis.signal = NoSignal
           /\ st_analysis.reason = <<"Market Scanning...">>

\* C15: an evaluation that gives neither buy nor sell has signal None
\* and as reason the trail of the buy sub-conditions looked at, the last
\* entry being the first that failed; 'Market Scanning...' is never the
\* reason.
FailedConditionReason ==
    /\ (Evaluated /\ st_analysis.signal \notin {"buy", "sell"})
        => /\ st_analysis.signal = NoSignal
           /\ Last(st_analysis.reason) \in
                {"Downtrend (price < EMA200)", "RSI out of range",
                 "No MACD bullish cross", "Low volume",
                 "No EMA entry signal"}
           /\ (Last(st_analysis.reason) = "Downtrend (price < EMA200)")
                <=> ~(frame.ind.price > frame.ind.ema_trend)
    /\ Evaluated => st_analysis.reason # <<"Market Scanning...">>

\* no signal in an uptrend: the trail ends at the RSI
NoSignalRsiTrail ==
    /\ Evaluated
    /\ st_analysis.signal = NoSignal
    /\ st_analysis.reason = <<"Uptrend", "RSI out of range">>

\* The second run has replayed the whole dataset.
SecondRunDone == run # "first" /\ i = RerunLen

ClosesOnStep ==
    /\ bt_position # None
    /\ \/ bt_position' = None
       \/ bt_position'.entry_time # bt_position.entry_time

\* C17: a Trade is appended to the replay ledger exactly when the position
\* goes from Open to Flat, one Trade per close; the ledger is append-only,
\* the Trades already in it are never changed or removed; every Trade has
\* entry_time < exit_time and a Trade's exit_time is at most the next
\* Trade's entry_time.
TradePerClose ==
    /\ [](/\ \A k \in 1..Len(trades) :
                trades[k].entry_time < trades[k].exit_time
          /\ \A k \in 1..(Len(trades) - 1) :
                trades[k].exit_time <= trades[k + 1].entry_time)
    /\ [][CandleStep =>
            /\ ClosesOnStep
                 => /\ Len(trades') = Len(trades) + 1
                    /\ SubSeq(trades', 1, Len(trades)) = trades
                    /\ Last(trades').entry_time = bt_position.entry_time
                    /\ Last(trades').exit_time = current_row'.timestamp
            /\ ~ClosesOnStep => trades' = trades]_vars

\* a candle closed a position at its stop loss and opened the next one,
\* which was closed in turn
ReopenedOnClosingCandle ==
    /\ Len(trades) = 2
    /\ trades[1].exit_time = trades[2].entry_time
    /\ trades[1].exit_reason = "stop_loss"

\* C18: every replayed candle appends exactly one sample to the equity
\* curve, in candle order; its equity is the capital after the candle's
\* SL/TP check and signal plus (close - entry_price) * amount of the
\* position open at the end of the candle, or the capital alone when Flat.
EquitySamplePerCandle ==
    /\ [](/\ Len(equity_curve) = i - WARMUP_START
          /\ \A k \in 1..Len(equity_curve) :
                equity_curve[k].timestamp = WARMUP_START + k - 1)
    /\ [][CandleStep =>
            equity_curve' =
                Append(equity_curve,
                       [timestamp |-> current_row'.timestamp,
                        equity |->
                            IF bt_position' = None THEN capital'
                            ELSE capital'
                                 + (current_row'.close
                                    - bt_position'.entry_price)
                                   * bt_position'.amount_btc])]_vars

\* a candle ended above the entry price of the position still open
SampleWithUnrealizedGain ==
    /\ bt_position # None
    /\ current_row.close > bt_position.entry_price
    /\ Last(equity_curve).equity > capital

\* C19: every position opened by Trader.open_position or
\* Backtester.simulate_trade has sl = entry * 0.98 and tp = entry * 1.05,
\* hence sl < entry < tp; they stay as they are while the position is
\* open; so no price is both at or below sl and at or above tp.
ThresholdsBracketEntry ==
    /\ [](/\ position # None
               => /\ position.sl * 100 = position.entry_price * 98
                  /\ position.tp * 100 = position.entry_price * 105
                  /\ position.sl < position.entry_price
                  /\ position.entry_price < position.tp
                  /\ \A p \in Prices :
                        ~(p <= position.sl /\ p >= position.tp)
          /\ bt_position # None
               => /\ bt_position.sl * 100 = bt_position.entry_price * 98
                  /\ bt_position.tp * 100 = bt_position.entry_price * 105
                  /\ bt_position.sl < bt_position.entry_price
                  /\ bt_position.entry_price < bt_position.tp)
    /\ [][/\ (position # None /\ position' # None)
               => /\ position'.sl = position.sl
                  /\ position'.tp = position.tp
                  /\ position'.entry_price = position.entry_price
          /\ (bt_position # None /\ bt_position' # None
               /\ bt_position'.entry_time = bt_position.entry_time)
               => /\ bt_position'.sl = bt_position.sl
                  /\ bt_position'.tp = bt_position.tp
                  /\ bt_position'.entry_price = bt_position.entry_price]_vars

\* a live position was held through a tick at a price between sl and tp
HeldBetweenThresholds ==
    /\ position # None
    /\ last_call = "run_analysis"
    /\ result = None
    /\ Has(latest_analysis, "price")
    /\ latest_analysis.price > position.sl
    /\ latest_analysis.price < position.tp
    /\ latest_analysis.price # position.entry_price

\* C20: no failure ends the trading loop.  After every tick, whether the
\* market data was missing, the order or the storage call failed,
\* run_analysis raised or the notification failed, the loop comes back to
\* the top of its next iteration, and there it calls run_analysis again
\* (the model stops counting ticks at MaxTicks).
LoopKeepsRunning ==
    /\ [](pc # "stopped")
    /\ \A k \in 1..MaxTicks : (ticks = k) ~> (ticks = k /\ pc = "run")
    /\ \A k \in 0..(MaxTicks - 1) : (ticks = k) ~> (ticks = k + 1)

\* run_analysis raised on the last tick and the loop is at the top of its
\* next iteration
BackAtTopAfterRaise ==
    /\ pc = "run"
    /\ last_call = "sleep"
    /\ exc # "none"

\* C21: a notification cannot touch the ledger.  When send_signal is
\* awaited the transition of the tick is already in place (a buy has left
\* the Trader Open with its row saved, a sell has left it Flat), and
\* whatever the outcome of the send, position and trade rows after it
\* are what they were before it and the loop goes on to its sleep.
NotifyLeavesLedger ==
    [][pc = "notify" =>
        /\ result # None
        /\ result.action = "buy"
             => /\ position # None
                /\ position.id # NoId
                     => rows[position.id].status = "open"
        /\ result.action = "sell" => position = None
        /\ position' = position
        /\ rows' = rows
        /\ pc' = "sleep"]_vars

\* the notification of a buy failed and the position is still open
OpenAfterFailedNotify ==
    /\ notified = "failed"
    /\ result # None
    /\ result.action = "buy"
    /\ position # None

\* C22: a restart resumes what storage holds.  If the Trader's position
\* was saved (it has a row id) and the process restarts before the
\* position is closed, the new Trader is Open with that very position:
\* same id, entry_price, amount, sl and tp; if no row is open the new
\* Trader is Flat.
RestartResumesSaved ==
    [][last_call' = "restart" =>
        /\ (position # None /\ position.id # NoId)
             => /\ position' # None
                /\ position'.id = position.id
                /\ position'.entry_price = position.entry_price
                /\ position'.amount = position.amount
                /\ position'.sl = position.sl
                /\ position'.tp = position.tp
        /\ (\A k \in 1..Len(rows) : rows[k].status # "open")
             => position' = None]_vars

\* C23: a position whose save_trade failed (it carries no row id) stays
\* open in memory; a later tick that sells it or hits its SL/TP closes
\* it to Flat without raising and without touching a row; a restart
\* before that close starts Flat.
UnsavedPositionLifetime ==
    [][(position # None /\ position.id = NoId) =>
        /\ (LiveCall /\ df_len' = LIVE_LIMIT /\ last_order' = "filled")
             => /\ position' = None
                /\ exc' = "none"
                /\ result'.action = "sell"
                /\ rows' = rows
        /\ (LiveCall /\ last_order' # "filled") => position' = position
        /\ last_call' = "restart" => position' = None]_vars

\* C29: too little data never makes the live tick fail.  When the frame
\* fetched is not empty but shorter than the 200 rows of the warmup,
\* run_analysis returns None without raising, submits no order and
\* leaves the position as it was, be the Trader Flat or Open.
ShortFrameTickIsQuiet ==
    [][(LiveCall /\ last_call' = "run_analysis"
        /\ df_len' > 0 /\ df_len' < 200)
        => /\ exc' = "none"
           /\ result' = None
           /\ last_order' = "none"
           /\ position' = position]_vars

\* C30: whatever opens and closes the live Trader went through, failed
\* save_trade and close_trade calls included, storage holds at most one
\* row with status 'open'.
AtMostOneOpenRow ==
    Cardinality({k \in 1..Len(rows) : rows[k].status = "open"}) <= 1

\* C24: when an indicator the decision reads is undefined (NaN), as the
\* RSI of a window without any gain or loss is, analyze short-circuits to
\* the result of insufficient data: signal None, reason 'Insufficient
\* data', no comparison made and no other field returned.
UndefinedIndicatorShortCircuits ==
    (st_analysis # None /\ frame.len >= 200 /\ frame.ind.rsi = NaN)
        => st_analysis = [signal |-> NoSignal,
                          reason |-> <<"Insufficient data">>]

\* C28: a buy is only returned when the volume of the current candle is
\* above 1.5 times the trailing average volume.
BuyNeedsVolumeOneAndHalf ==
    (Evaluated /\ st_analysis.signal = "buy")
        => 2 * frame.ind.volume > 3 * frame.ind.volume_avg

\* C26: on every series the RSI is undefined (NaN) at each of the first
\* period candles, the code's indices 0 .. period-1; wherever it is
\* defined it lies in [0, 100]; and it is 100 where the window's average
\* loss is 0 and its average gain is positive.
RsiUndefinedForPeriodCandles ==
    rsi_in # None =>
        /\ \A k \in 1..Len(rsi_out) :
              k <= rsi_in.period => rsi_out[k] = NaN
        /\ \A k \in 1..Len(rsi_out) :
              rsi_out[k] # NaN
                  => (0 <= rsi_out[k][1] /\ rsi_out[k][1] <= 10000)
        /\ \A k \in (rsi_in.period + 1)..Len(rsi_out) :
              (/\ \A j \in (k - rsi_in.period + 1)..k :
                     rsi_in.series[j] >= rsi_in.series[j - 1]
               /\ \E j \in (k - rsi_in.period + 1)..k :
                     rsi_in.series[j] > rsi_in.series[j - 1])
                  => rsi_out[k] = <<10000>>

\* C27: the reported profit factor is |sum of the winning pnl / sum of the
\* losing pnl|, and +infinity when no trade lost; one win of +100 and no
\* loss gives +infinity, one win of +100 and one loss of -50 gives 2.0.
IsGain(t) == t.pnl_usd > 0
IsLoss(t) == t.pnl_usd < 0

ProfitFactorIsAbsRatio ==
    (last_call = "generate_report" /\ rp_trades # <<>>) =>
        LET won == SumPnl(SelectSeq(rp_trades, IsGain))
            lost == SumPnl(SelectSeq(rp_trades, IsLoss))
            pf == report.profit_factor
        IN  /\ SelectSeq(rp_trades, IsLoss) = <<>> => pf = Inf
            /\ SelectSeq(rp_trades, IsLoss) # <<>>
                  => (/\ pf # Inf
                      /\ pf.num >= 0 /\ pf.den > 0
                      /\ pf.num = won /\ pf.den = -lost)
            /\ rp_trades = <<[pnl_usd |-> 10000000]>> => pf = Inf
            /\ rp_trades = <<[pnl_usd |-> 10000000], [pnl_usd |-> -5000000]>>
                  => (pf # Inf /\ pf.num = 2 * pf.den)

WinAndLossReported ==
    /\ rp_trades = <<[pnl_usd |-> 10000000], [pnl_usd |-> -5000000]>>
    /\ report # None
    /\ report.profit_factor = Ratio(10000000, 5000000)

\* C25: neither GET /api/status nor the Telegram /status command changes
\* trader.position or the storage, and a query never sees a transition
\* half applied: the position it finds, if any, carries its storage id
\* and, when it was saved, its row is still open.
StatusStep == last_call' \in {"get_status", "status"}

WholePosition(pos, rws) ==
    pos # None =>
        /\ Has(pos, "id")
        /\ pos.id # NoId =>
              (pos.id \in 1..Len(rws) /\ rws[pos.id].status = "open")

StatusReadOnlyAndWhole ==
    [][StatusStep =>
        /\ position' = position
        /\ rows' = rows
        /\ held' = held
        /\ latest_analysis' = latest_analysis
        /\ pc' = pc
        /\ WholePosition(position, rows)
        /\ (view'.handler = "status" /\ view'.raised = "none")
              => WholePosition(view'.position, rows)]_vars

\* /status was answered between a tick that opened a position and the
\* notification of it
StatusSeesOpenedPosition ==
    /\ last_call = "status"
    /\ pc = "notify"
    /\ view.raised = "none"
    /\ view.position # None
    /\ view.position.id # NoId
    /\ rows # <<>>

\* C31: a restart never starts Open with a position the Trader had closed:
\* the position a new Trader takes from storage is the one that was open
\* in memory when the process stopped, whatever storage call failed during
\* an earlier close.
ClosedNeverResurrected ==
    [][(last_call' = "restart" /\ position' # None)
          => (position # None /\ position.id = position'.id)]_vars

\* the candle being replayed opens a position (after closing one, if any)
OpensOnStep ==
    /\ bt_position' # None
    /\ \/ bt_position = None
       \/ bt_position'.entry_time # bt_position.entry_time

\* C32: in replay, with every candle price positive, capital is strictly
\* positive after every candle: a position opened on the candle is sized
\* at 95% of the capital at its open, capital does not move while the
\* position stays Open, and a close loses less than the position's
\* notional.
CapitalStaysPositive ==
    [][CandleStep =>
        /\ capital' > 0
        /\ OpensOnStep
              => (/\ bt_position'.amount_usd = 95 * (capital' \div 100)
                  /\ bt_position'.amount_usd < capital'
                  /\ bt_position'.amount_btc * bt_position'.entry_price
                        <= bt_position'.amount_usd)
        /\ (bt_position # None /\ bt_position' = bt_position)
              => capital' = capital
        /\ ClosesOnStep
              => capital' - capital > -(bt_position.amount_usd)]_vars

\* a position was closed at a loss and the ledger is Flat with less than
\* the initial capital
CapitalAfterLoss ==
    /\ mode = "replay"
    /\ bt_position = None
    /\ trades # <<>>
    /\ Last(trades).pnl_usd < 0
    /\ capital < INITIAL_CAPITAL
    /\ capital > 0
====
